---- MODULE Spec2Model ----
(***************************************************************************)
(* One run of the analysis tab of src/aba_app.py (lines 83-235): the       *)
(* uploaded CSV is loaded and normalised, filtered to the selected         *)
(* behaviour, aggregated into plotting rows, judged (the before/after      *)
(* verdict) and charted (the phase-change decoration).                     *)
(*                                                                         *)
(* Header and cell literals are ASCII renderings of the source's Japanese  *)
(* literals; each definition names the literal it stands for.  Metric      *)
(* values and means are exact rationals <<numerator, denominator>>.        *)
(* Every cell of a column that is present holds a value (no empty cells),  *)
(* and a table carries at most one of the three metric columns.            *)
(***************************************************************************)
EXTENDS Integers, Sequences, FiniteSets, TLC

VARIABLES
  pc,                \* position of the run in the script
  uploaded,          \* the uploaded table: [headers, rows]
  columns,           \* df.columns after the strip
  df,                \* the normalised table
  notices,           \* what st.error has shown, in order
  selected_behavior, \* the selectbox value
  df_target,         \* rows of the selected behaviour
  use_daily_agg,     \* the checkbox value
  df_plot,           \* the plotting rows
  y_axis_option,     \* the metric selectbox value
  goal_direction,    \* the radio value
  verdict,           \* the result box
  df_sorted,         \* the chart's re-sorted plotting rows
  chart              \* the figure and its decoration

vars == <<pc, uploaded, columns, df, notices, selected_behavior, df_target,
          use_daily_agg, df_plot, y_axis_option, goal_direction, verdict,
          df_sorted, chart>>

-----------------------------------------------------------------------------
(* Literals of the source *)

TimestampCol == "timestamp"   \* '日時'
DateCol      == "date"        \* '日付'
BehaviorCol  == "behavior"    \* '対象行動'
FrequencyCol == "frequency"   \* '頻度'
DurationCol  == "duration"    \* '持続時間(分)'
IntensityCol == "intensity"   \* '強度'
PhaseCol     == "phase"       \* 'フェーズ'

MetricCols == <<FrequencyCol, DurationCol, IntensityCol>>

Decrease == "decrease"        \* "減らしたい（問題行動など）"
Increase == "increase"        \* "増やしたい（適切な行動など）"

Dramatic == "dramatic_improvement"  \* the box titled "素晴らしい効果です"
Mild     == "mild_improvement"      \* the box titled "少し良くなっています"
NoImprovement == "no_improvement"   \* the box titled "変化がないか、..."

DramaticThreshold == 50
Hundred == 100

None   == "None"     \* Python's None
NaT    == -1         \* a timestamp pd.to_datetime could not parse
NoDate == -1         \* change_date = None
Absent == "-"        \* the cell of a column the table does not have
Space  == " "

-----------------------------------------------------------------------------
(* Bounds of the explored inputs *)

MaxRows     == 3
NumDays     == 2
SlotsPerDay == 2
ValueDays   == 3
SchemaRows  == 2

Phases    == {"A", "B", "C"}
Behaviors == {"X", "Y"}
Values    == {0, 2, 3, 8}

\* Python's order of the phase labels (str comparison)
PhaseRank(p) == CASE p = "A" -> 1 [] p = "B" -> 2 [] p = "C" -> 3 [] OTHER -> 0

-----------------------------------------------------------------------------
(* Exact arithmetic *)

RECURSIVE Gcd(_, _)
Gcd(a, b) == IF b = 0 THEN a ELSE Gcd(b, a % b)

Abs(n) == IF n < 0 THEN -n ELSE n

Rat(n, d) ==
  LET s == IF d < 0 THEN -1 ELSE 1
      g == Gcd(Abs(n), Abs(d))
  IN  <<(s * n) \div g, (s * d) \div g>>

Zero == <<0, 1>>
RInt(n) == <<n, 1>>
RAdd(a, b) == Rat(a[1] * b[2] + b[1] * a[2], a[2] * b[2])
RSub(a, b) == Rat(a[1] * b[2] - b[1] * a[2], a[2] * b[2])
RMul(a, b) == Rat(a[1] * b[1], a[2] * b[2])
RDiv(a, b) == Rat(a[1] * b[2], a[2] * b[1])
RLt(a, b) == a[1] * b[2] < b[1] * a[2]
RLe(a, b) == a[1] * b[2] <= b[1] * a[2]

RECURSIVE RSum(_)
RSum(s) == IF s = <<>> THEN Zero ELSE RAdd(Head(s), RSum(Tail(s)))

\* Series.mean() of a non-empty column
Mean(s) == RDiv(RSum(s), RInt(Len(s)))

-----------------------------------------------------------------------------
(* Sequences *)

Range(s) == {s[i] : i \in 1..Len(s)}

PermSeqs(s) == {[i \in 1..Len(s) |-> s[p[i]]] : p \in Permutations(1..Len(s))}

\* Series.unique(): the distinct values in order of first appearance
RECURSIVE Unique(_)
Unique(s) ==
  IF s = <<>> THEN <<>>
  ELSE LET u == Unique(SubSeq(s, 1, Len(s) - 1))
       IN  IF s[Len(s)] \in Range(u) THEN u ELSE Append(u, s[Len(s)])

Column(t, f) == [i \in 1..Len(t) |-> t[i][f]]

\* DataFrame.sort_values(key): the rows in ascending order of the key.  The
\* default kind='quicksort' sorts a frame of at most 16 rows by insertion, so
\* rows with equal keys keep the order they had in the frame.
RECURSIVE InsertRow(_, _, _)
InsertRow(s, r, f) ==
  IF s = <<>> THEN <<r>>
  ELSE IF s[Len(s)][f] <= r[f] THEN Append(s, r)
       ELSE Append(InsertRow(SubSeq(s, 1, Len(s) - 1), r, f), s[Len(s)])

RECURSIVE SortValues(_, _)
SortValues(t, f) ==
  IF t = <<>> THEN <<>>
  ELSE InsertRow(SortValues(SubSeq(t, 1, Len(t) - 1), f), t[Len(t)], f)

-----------------------------------------------------------------------------
(* Loading *)

\* str.strip() of a header, a sequence of tokens
RECURSIVE LStrip(_)
LStrip(h) == IF h # <<>> /\ Head(h) = Space THEN LStrip(Tail(h)) ELSE h

RECURSIVE RStrip(_)
RStrip(h) ==
  IF h # <<>> /\ h[Len(h)] = Space THEN RStrip(SubSeq(h, 1, Len(h) - 1)) ELSE h

\* a strip of the left side only
StripLeftOnly(h) == LStrip(h)

Strip(h) == RStrip(LStrip(h))

StripColumns(headers) == {Strip(h) : h \in headers}

HasColumn(cols, name) == <<name>> \in cols

DateOf(ts) == ts \div SlotsPerDay

\* a load that stops reading at the first unparsable timestamp
RECURSIVE DropFromFirstNa(_)
DropFromFirstNa(rows) ==
  IF rows = <<>> \/ Head(rows).ts = NaT THEN <<>>
  ELSE <<Head(rows)>> \o DropFromFirstNa(Tail(rows))

\* df.dropna(subset=['日時']) after pd.to_datetime(errors='coerce')
RECURSIVE DropNa(_)
DropNa(rows) ==
  IF rows = <<>> THEN <<>>
  ELSE IF Head(rows).ts = NaT THEN DropNa(Tail(rows))
       ELSE <<Head(rows)>> \o DropNa(Tail(rows))

\* df['日付'] = df['日時'].dt.date
WithDate(rows) ==
  [i \in 1..Len(rows) |->
     [ts |-> rows[i].ts, date |-> DateOf(rows[i].ts),
      behavior |-> rows[i].behavior, value |-> rows[i].value,
      phase |-> rows[i].phase]]

MissingColumnNotice == [kind |-> "missing_column", mentions |-> {TimestampCol}]
ExceptionNotice(what) == [kind |-> "exception", mentions |-> {what}]

NoVerdict ==
  [shown |-> FALSE, phase_a |-> Absent, phase_b |-> Absent, mean_a |-> Zero,
   mean_b |-> Zero, percent_change |-> Zero, category |-> Absent]

NoChart == [drawn |-> FALSE, change_date |-> NoDate]

Load ==
  /\ pc = "start"
  /\ columns' = StripColumns(uploaded.headers)
  /\ IF HasColumn(columns', TimestampCol)
     THEN /\ df' = WithDate(DropNa(uploaded.rows))
          /\ pc' = "loaded"
          /\ notices' = notices
     ELSE /\ df' = df
          /\ notices' = Append(notices, MissingColumnNotice)
          /\ pc' = "stopped"
  /\ UNCHANGED <<uploaded, selected_behavior, df_target, use_daily_agg,
                 df_plot, y_axis_option, goal_direction, verdict, df_sorted,
                 chart>>

-----------------------------------------------------------------------------
(* Filtering to the selected behaviour *)

\* the options of st.selectbox: df['対象行動'].unique()
BehaviorOptions(t) == Range(Column(t, "behavior"))

\* df[df['対象行動'] == selected_behavior]
RowsOfBehavior(t, b) ==
  LET Test(r) == r.behavior = b IN SelectSeq(t, Test)

Filter ==
  /\ pc = "loaded"
  /\ IF HasColumn(columns, BehaviorCol)
     THEN /\ \E b \in (IF df = <<>> THEN {None} ELSE BehaviorOptions(df)) :
               /\ selected_behavior' = b
               /\ df_target' = RowsOfBehavior(df, b)
          /\ pc' = IF df_target' = <<>> THEN "stopped" ELSE "filtered"
          /\ notices' = notices
     ELSE \* df['対象行動'] raises KeyError, caught by the except clause
          /\ selected_behavior' = None
          /\ df_target' = df_target
          /\ notices' = Append(notices, ExceptionNotice(BehaviorCol))
          /\ pc' = "error"
  /\ UNCHANGED <<uploaded, columns, df, use_daily_agg, df_plot, y_axis_option,
                 goal_direction, verdict, df_sorted, chart>>

-----------------------------------------------------------------------------
(* Aggregation into plotting rows [x, phase, y] *)

\* the metric column the table carries, None without one
MetricOf(cols) ==
  IF \E i \in 1..Len(MetricCols) : HasColumn(cols, MetricCols[i])
  THEN MetricCols[CHOOSE i \in 1..Len(MetricCols) : HasColumn(cols, MetricCols[i])]
  ELSE None

\* every metric summed
AggRuleAllSum(col) == "sum"

AggRule(col) == IF col = IntensityCol THEN "mean" ELSE "sum"

GroupKeys(t) == {<<t[i].date, t[i].phase>> : i \in 1..Len(t)}

KeyLess(k1, k2) ==
  \/ k1[1] < k2[1]
  \/ k1[1] = k2[1] /\ PhaseRank(k1[2]) < PhaseRank(k2[2])

\* groupby(sort=True): the group keys in ascending order
RECURSIVE SortKeys(_)
SortKeys(K) ==
  IF K = {} THEN <<>>
  ELSE LET m == CHOOSE k \in K : \A o \in K \ {k} : KeyLess(k, o)
       IN  <<m>> \o SortKeys(K \ {m})

GroupValues(t, k) ==
  LET Test(r) == r.date = k[1] /\ r.phase = k[2]
      g == SelectSeq(t, Test)
  IN  [i \in 1..Len(g) |-> RInt(g[i].value)]

Agg(rule, vals) == IF rule = "sum" THEN RSum(vals) ELSE Mean(vals)

\* df_target.groupby(['日付', 'フェーズ']).agg(agg_rules).reset_index()
GroupBy(t, metric) ==
  LET keys == SortKeys(GroupKeys(t))
  IN  [i \in 1..Len(keys) |->
         [x |-> keys[i][1], phase |-> keys[i][2],
          y |-> Agg(AggRule(metric), GroupValues(t, keys[i]))]]

\* the columns of df_target the raw branch plots
RawRows(t, metric) ==
  [i \in 1..Len(t) |->
     [x |-> t[i].ts, phase |-> t[i].phase,
      y |-> IF metric = None THEN Zero ELSE RInt(t[i].value)]]

\* df_plot of either branch
PlotFrame(t, cols, daily) ==
  IF daily THEN SortValues(GroupBy(t, MetricOf(cols)), "x")
  ELSE SortValues(RawRows(t, MetricOf(cols)), "x")

Aggregate ==
  /\ pc = "filtered"
  /\ \E daily \in BOOLEAN :
       /\ use_daily_agg' = daily
       /\ IF daily /\ ~HasColumn(columns, PhaseCol)
          THEN \* groupby(['日付', 'フェーズ']) raises KeyError
               /\ df_plot' = df_plot
               /\ notices' = Append(notices, ExceptionNotice(PhaseCol))
               /\ pc' = "error"
          ELSE IF daily /\ MetricOf(columns) = None
          THEN \* agg({}) raises ValueError
               /\ df_plot' = df_plot
               /\ notices' = Append(notices, ExceptionNotice("agg"))
               /\ pc' = "error"
          ELSE /\ df_plot' = PlotFrame(df_target, columns, daily)
               /\ notices' = notices
               /\ pc' = "plotted"
  /\ UNCHANGED <<uploaded, columns, df, selected_behavior, df_target,
                 y_axis_option, goal_direction, verdict, df_sorted, chart>>

-----------------------------------------------------------------------------
(* The verdict *)

\* df_plot[df_plot['フェーズ'] == p][y_axis_option].mean()
PhaseMean(t, p) ==
  LET Test(r) == r.phase = p IN Mean(Column(SelectSeq(t, Test), "y"))

PercentChange(mean_a, mean_b) ==
  IF mean_a # Zero
  THEN RMul(RDiv(RSub(mean_b, mean_a), mean_a), RInt(Hundred))
  ELSE Zero

\* the dramatic threshold tested strictly
CategoryStrict(goal, percent_change) ==
  IF goal = Decrease
  THEN IF RLt(percent_change, RInt(-DramaticThreshold)) THEN Dramatic
       ELSE IF RLt(percent_change, Zero) THEN Mild
       ELSE NoImprovement
  ELSE IF RLt(RInt(DramaticThreshold), percent_change) THEN Dramatic
       ELSE IF RLt(Zero, percent_change) THEN Mild
       ELSE NoImprovement

Category(goal, percent_change) ==
  IF goal = Decrease
  THEN IF RLe(percent_change, RInt(-DramaticThreshold)) THEN Dramatic
       ELSE IF RLt(percent_change, Zero) THEN Mild
       ELSE NoImprovement
  ELSE IF RLe(RInt(DramaticThreshold), percent_change) THEN Dramatic
       ELSE IF RLt(Zero, percent_change) THEN Mild
       ELSE NoImprovement

PhaseA(unique_phases) == unique_phases[1]
PhaseB(unique_phases) == unique_phases[Len(unique_phases)]

Judge(t, unique_phases, goal) ==
  LET phase_a == PhaseA(unique_phases)
      phase_b == PhaseB(unique_phases)
      mean_a == PhaseMean(t, phase_a)
      mean_b == PhaseMean(t, phase_b)
      percent_change == PercentChange(mean_a, mean_b)
  IN  [shown |-> TRUE, phase_a |-> phase_a, phase_b |-> phase_b,
       mean_a |-> mean_a, mean_b |-> mean_b,
       percent_change |-> percent_change,
       category |-> Category(goal, percent_change)]

UniquePhases(t) == Unique(Column(t, "phase"))

\* a guard that lets a single phase through
HasAPhase(unique_phases) == Len(unique_phases) >= 1

\* len(unique_phases) >= 2
HasTwoPhases(unique_phases) == Len(unique_phases) >= 2

\* 'フェーズ' in df_plot.columns
PlotHasPhase == HasColumn(columns, PhaseCol)

Analyze ==
  /\ pc = "plotted"
  /\ y_axis_option' = MetricOf(columns)
  /\ IF y_axis_option' # None /\ PlotHasPhase
     THEN /\ IF HasTwoPhases(UniquePhases(df_plot))
             THEN \E goal \in {Decrease, Increase} :
                    /\ goal_direction' = goal
                    /\ verdict' = Judge(df_plot, UniquePhases(df_plot), goal)
             ELSE /\ goal_direction' = goal_direction
                  /\ verdict' = verdict
          /\ pc' = "analyzed"
     ELSE /\ goal_direction' = goal_direction
          /\ verdict' = verdict
          /\ pc' = "done"
  /\ UNCHANGED <<uploaded, columns, df, notices, selected_behavior, df_target,
                 use_daily_agg, df_plot, df_sorted, chart>>

-----------------------------------------------------------------------------
(* The chart and its phase-change decoration *)

\* the loop without its break: the last change wins
ChangeDateNoBreak(s) ==
  IF \E i \in 2..Len(s) : s[i].phase # s[i - 1].phase
  THEN LET i == CHOOSE j \in 2..Len(s) :
                  /\ s[j].phase # s[j - 1].phase
                  /\ \A k \in (j + 1)..Len(s) : s[k].phase = s[k - 1].phase
       IN  s[i].x
  ELSE NoDate

\* the loop over range(1, len(df_sorted)) with its break
ChangeDate(s) ==
  IF \E i \in 2..Len(s) : s[i].phase # s[i - 1].phase
  THEN LET i == CHOOSE j \in 2..Len(s) :
                  /\ s[j].phase # s[j - 1].phase
                  /\ \A k \in 2..(j - 1) : s[k].phase = s[k - 1].phase
       IN  s[i].x
  ELSE NoDate

Chart ==
  /\ pc = "analyzed"
  /\ IF HasTwoPhases(UniquePhases(df_plot))
     THEN /\ df_sorted' = SortValues(df_plot, "x")
          /\ chart' = [drawn |-> TRUE, change_date |-> ChangeDate(df_sorted')]
     ELSE /\ df_sorted' = df_sorted
          /\ chart' = [drawn |-> TRUE, change_date |-> NoDate]
  /\ pc' = "done"
  /\ UNCHANGED <<uploaded, columns, df, notices, selected_behavior, df_target,
                 use_daily_agg, df_plot, y_axis_option, goal_direction,
                 verdict>>

-----------------------------------------------------------------------------
(* The uploaded tables explored *)

Tables(n, tss, behs, vals, phs) ==
  UNION {[1..k -> [ts : tss, behavior : behs, value : vals, phase : phs]] :
           k \in 0..n}

Plain(name) == <<name>>
Padded(name) == <<Space, name, Space>>

\* Tables whose events differ in time of day and in phase
TimingTables ==
  {[headers |-> {Plain(TimestampCol), Plain(BehaviorCol), Plain(FrequencyCol),
                 Plain(PhaseCol)},
    rows |-> r] :
     r \in Tables(MaxRows, {NaT} \cup 0..(NumDays * SlotsPerDay - 1), {"X"},
                  {1}, Phases)}

\* Tables whose events differ in metric value, one event slot per day
ValueTables ==
  {[headers |-> {Plain(TimestampCol), Plain(BehaviorCol), Plain(m),
                 Plain(PhaseCol)},
    rows |-> r] :
     m \in {FrequencyCol, IntensityCol},
     r \in Tables(MaxRows, {d * SlotsPerDay : d \in 0..(ValueDays - 1)}, {"X"},
                  Values, {"A", "B"})}

\* Tables that lack columns or pad their headers
SchemaTables ==
  {[headers |-> {IF pad THEN Padded(c) ELSE Plain(c) : c \in cs}, rows |-> r] :
     pad \in BOOLEAN,
     cs \in {c \in SUBSET {TimestampCol, BehaviorCol, PhaseCol, FrequencyCol,
                           DurationCol, IntensityCol} :
               Cardinality(c \cap Range(MetricCols)) <= 1},
     r \in Tables(SchemaRows, {NaT, 0, SlotsPerDay}, Behaviors, {1},
                  {"A", "B"})}

Init ==
  /\ pc = "start"
  /\ uploaded \in TimingTables \cup ValueTables \cup SchemaTables
  /\ columns = {}
  /\ df = <<>>
  /\ notices = <<>>
  /\ selected_behavior = None
  /\ df_target = <<>>
  /\ use_daily_agg = FALSE
  /\ df_plot = <<>>
  /\ y_axis_option = None
  /\ goal_direction = Decrease
  /\ verdict = NoVerdict
  /\ df_sorted = <<>>
  /\ chart = NoChart

Next == Load \/ Filter \/ Aggregate \/ Analyze \/ Chart

Spec == Init /\ [][Next]_vars

-----------------------------------------------------------------------------
(* Properties *)

Ran(stages) == pc \in stages
NamesColumn(h, c) == \E i \in 1..Len(h) : h[i] = c /\ \A j \in 1..Len(h) : j = i \/ h[j] = Space
TableHas(c) == \E h \in uploaded.headers : NamesColumn(h, c)
TargetPhases == Range(Column(df_target, "phase"))

\* C1: the verdict category follows the threshold table of the goal
\* direction, the dramatic threshold included in the dramatic category.
C1_ThresholdTable ==
  verdict.shown =>
    LET n == verdict.percent_change[1]
        d == verdict.percent_change[2]
        c == verdict.category
    IN  /\ d > 0
        /\ c \in {Dramatic, Mild, NoImprovement}
        /\ goal_direction = Decrease =>
             /\ (n <= -50 * d) => c = Dramatic
             /\ (-50 * d < n /\ n < 0) => c = Mild
             /\ (n >= 0) => c = NoImprovement
        /\ goal_direction = Increase =>
             /\ (n >= 50 * d) => c = Dramatic
             /\ (0 < n /\ n < 50 * d) => c = Mild
             /\ (n <= 0) => c = NoImprovement

C1_Witness ==
  /\ verdict.shown
  /\ goal_direction = Decrease
  /\ verdict.percent_change = <<-50, 1>>
  /\ verdict.category = Dramatic

FirstSeen(t, p) ==
  LET seen == {t[i].ts : i \in {j \in 1..Len(t) : t[j].phase = p}}
  IN  CHOOSE m \in seen : \A o \in seen : m <= o

\* C2: with a verdict, baseline_phase is the phase of the earliest event and
\* outcome_phase is the phase whose first appearance in time is the latest,
\* in both granularities.
C2_PhasesInTimestampOrder ==
  verdict.shown =>
    \A q \in TargetPhases :
      /\ FirstSeen(df_target, verdict.phase_a) <= FirstSeen(df_target, q)
      /\ FirstSeen(df_target, q) <= FirstSeen(df_target, verdict.phase_b)

\* C3: a zero baseline mean with a nonzero outcome mean gives a nonzero
\* percent_change; zero and zero give 0 and, for goal=decrease,
\* no_improvement.
C3_ZeroBaselineSentinel ==
  (verdict.shown /\ verdict.mean_a = Zero) =>
    /\ verdict.mean_b # Zero => verdict.percent_change # Zero
    /\ verdict.mean_b = Zero =>
         /\ verdict.percent_change = Zero
         /\ goal_direction = Decrease => verdict.category = NoImprovement

DatePhasePairs(t) == {<<t[i].date, t[i].phase>> : i \in 1..Len(t)}
EventsOf(t, k) == {i \in 1..Len(t) : t[i].date = k[1] /\ t[i].phase = k[2]}

RECURSIVE TotalValue(_, _)
TotalValue(t, I) ==
  IF I = {} THEN 0
  ELSE LET i == CHOOSE j \in I : TRUE IN t[i].value + TotalValue(t, I \ {i})

RECURSIVE TotalY(_, _)
TotalY(t, I) ==
  IF I = {} THEN Zero
  ELSE LET i == CHOOSE j \in I : TRUE IN RAdd(t[i].y, TotalY(t, I \ {i}))

PlotRowsOf(p) == {j \in 1..Len(df_plot) : df_plot[j].phase = p}

IsMeanOfPhase(m, p) ==
  RMul(m, RInt(Cardinality(PlotRowsOf(p)))) = TotalY(df_plot, PlotRowsOf(p))

EndToEndScenario ==
  /\ Column(df_target, "date") = <<0, 1, 2>>
  /\ Column(df_target, "value") = <<8, 2, 0>>
  /\ Column(df_target, "phase") = <<"A", "B", "B">>
  /\ y_axis_option = FrequencyCol
  /\ use_daily_agg
  /\ goal_direction = Decrease

\* C4: in daily granularity there is one plotting row per (date, phase) pair
\* of the filtered data, holding the sum (frequency, duration) or the mean
\* (intensity) of the pair's events; the verdict's means are the means of the
\* plotting rows of the baseline and of the outcome phase; with a nonzero
\* baseline mean percent_change = (outcome - baseline) / baseline * 100; and
\* the end-to-end scenario gives 8, 1, -87.5 and dramatic_improvement.
C4_DailyAggregation ==
  (use_daily_agg /\ Ran({"plotted", "analyzed", "done"})) =>
    /\ Len(df_plot) = Cardinality(DatePhasePairs(df_target))
    /\ \A k \in DatePhasePairs(df_target) :
         \E j \in 1..Len(df_plot) :
           /\ df_plot[j].x = k[1]
           /\ df_plot[j].phase = k[2]
           /\ LET total == TotalValue(df_target, EventsOf(df_target, k))
                  count == Cardinality(EventsOf(df_target, k))
                  y == df_plot[j].y
              IN  IF HasColumn(columns, IntensityCol)
                  THEN y[1] * count = y[2] * total
                  ELSE y = <<total, 1>>
    /\ verdict.shown =>
         LET a == verdict.mean_a
             b == verdict.mean_b
             c == verdict.percent_change
         IN  /\ IsMeanOfPhase(a, verdict.phase_a)
             /\ IsMeanOfPhase(b, verdict.phase_b)
             /\ a # Zero =>
                  c[1] * b[2] * a[1] = 100 * c[2] * (b[1] * a[2] - a[1] * b[2])
    /\ (verdict.shown /\ EndToEndScenario) =>
         /\ verdict.mean_a = <<8, 1>>
         /\ verdict.mean_b = <<1, 1>>
         /\ verdict.percent_change = <<-175, 2>>
         /\ verdict.category = Dramatic

C4_Witness ==
  /\ verdict.shown
  /\ EndToEndScenario
  /\ verdict.percent_change = <<-175, 2>>
  /\ verdict.category = Dramatic

Changes(s) == {i \in 2..Len(s) : s[i].phase # s[i - 1].phase}
Boundaries == IF chart.change_date = NoDate THEN {} ELSE {chart.change_date}

\* C5 as stated: the decoration holds a boundary at every row of the sorted
\* plotting rows whose phase differs from the preceding row's phase.
C5_BoundaryAtEveryChange ==
  (Ran({"done"}) /\ chart.drawn) =>
    \A i \in Changes(df_sorted) : df_sorted[i].x \in Boundaries

\* C5 as amended: the decoration holds at most one boundary, the x of the
\* first row whose phase differs from the preceding row's phase; that row is
\* never the first row; with fewer than 2 phases there is no boundary.
C5_BoundaryAtFirstChange ==
  (Ran({"done"}) /\ chart.drawn) =>
    IF Cardinality(Range(Column(df_plot, "phase"))) >= 2
    THEN \E i \in Changes(df_sorted) :
           /\ i >= 2
           /\ \A j \in Changes(df_sorted) : i <= j
           /\ Boundaries = {df_sorted[i].x}
    ELSE Boundaries = {}

C5_Witness ==
  /\ Ran({"done"})
  /\ chart.drawn
  /\ Column(df_sorted, "phase") = <<"A", "B", "B">>
  /\ Changes(df_sorted) = {2}
  /\ chart.change_date = df_sorted[2].x

ColumnsFound == {c \in UNION {Range(h) : h \in columns} : c # Space}

\* C7 as stated: without a timestamp column the run stops at the load and
\* the error names the missing column and every column that was found.
C7_ErrorListsColumnsFound ==
  (~Ran({"start"}) /\ ~TableHas(TimestampCol)) =>
    /\ Ran({"stopped"})
    /\ Len(notices) = 1
    /\ {TimestampCol} \cup ColumnsFound \subseteq notices[1].mentions

\* C7 as amended: without a timestamp column (headers trimmed) the run
\* stops at the load, before any filtering, aggregation, verdict or chart,
\* and the one error shown names the missing column and no other column;
\* with a timestamp column, padded or not, no such error is shown.
C7_AbortNamesMissingColumn ==
  ~Ran({"start"}) =>
    IF TableHas(TimestampCol)
    THEN \A i \in 1..Len(notices) : notices[i].kind # "missing_column"
    ELSE /\ Ran({"stopped"})
         /\ Len(notices) = 1
         /\ notices[1].kind = "missing_column"
         /\ notices[1].mentions = {TimestampCol}
         /\ df = <<>> /\ df_target = <<>> /\ df_plot = <<>>
         /\ selected_behavior = None
         /\ ~verdict.shown
         /\ ~chart.drawn

C7_Witness ==
  /\ Ran({"stopped"})
  /\ ~TableHas(TimestampCol)
  /\ TableHas(BehaviorCol) /\ TableHas(PhaseCol)
  /\ Len(uploaded.rows) > 0
  /\ Len(notices) = 1
  /\ notices[1].mentions = {TimestampCol}

\* C8: without a phase column the run ends with no verdict and no error, in
\* both granularities.
C8_NoPhaseColumnNoError ==
  (~Ran({"start"}) /\ HasColumn(columns, TimestampCol)
     /\ HasColumn(columns, BehaviorCol) /\ ~HasColumn(columns, PhaseCol)) =>
    /\ ~Ran({"error"})
    /\ notices = <<>>
    /\ ~verdict.shown

Unparsable == {i \in 1..Len(uploaded.rows) : uploaded.rows[i].ts = NaT}
Parsable == (1..Len(uploaded.rows)) \ Unparsable
Loaded == ~Ran({"start"}) /\ HasColumn(columns, TimestampCol)

\* C9 as stated: the load reports the number of dropped rows.
C9_DropCountReported ==
  (Loaded /\ Unparsable # {}) =>
    \E i \in 1..Len(notices) :
      /\ notices[i].kind = "rows_dropped"
      /\ notices[i].count = Cardinality(Unparsable)

\* C9 as amended: the load drops exactly the rows with an unparsable
\* timestamp and keeps every other row in input order, so that kept rows +
\* unparsable rows = input rows; it reports nothing about the dropped rows,
\* and the run continues.
C9_DropsExactlyUnparsable ==
  Loaded =>
    /\ Len(df) + Cardinality(Unparsable) = Len(uploaded.rows)
    /\ \A i \in Parsable :
         LET k == Cardinality({j \in Parsable : j <= i})
             r == uploaded.rows[i]
         IN  /\ k <= Len(df)
             /\ df[k].ts = r.ts /\ df[k].behavior = r.behavior
             /\ df[k].value = r.value /\ df[k].phase = r.phase
    /\ \A i \in 1..Len(notices) : notices[i].kind = "exception"
    /\ Ran({"loaded"}) => notices = <<>> /\ ENABLED Filter

C9_Witness ==
  /\ Ran({"loaded"})
  /\ Len(uploaded.rows) = 3
  /\ Unparsable = {2}
  /\ Len(df) = 2
  /\ df[1].phase # df[2].phase
  /\ notices = <<>>

PhasePairOf(rows) ==
  LET u == UniquePhases(PlotFrame(RowsOfBehavior(WithDate(DropNa(rows)),
                                                 selected_behavior),
                                  columns, use_daily_agg))
  IN  <<PhaseA(u), PhaseB(u)>>

\* C10: every permutation of the uploaded rows gives the same baseline_phase
\* and the same outcome_phase, in both granularities.
C10_RowOrderInvariance ==
  verdict.shown =>
    \A p \in PermSeqs(uploaded.rows) :
      PhasePairOf(p) = <<verdict.phase_a, verdict.phase_b>>

====
